---- MODULE Spec2Model ----
(***************************************************************************)
(* A model of the mercado-publico-scraper repository.                      *)
(*                                                                         *)
(*   scraper/captcha_solver.py   CaptchaSolver: solve and its helpers      *)
(*   scraper/downloader.py       MercadoPublicoDownloader, solve's caller  *)
(*   scraper/ocr.py              OCRProcessor: text and table extraction   *)
(*                                                                         *)
(* Texts are sequences of one-character strings, so that strip() and       *)
(* split() are computed rather than assumed.  The browser, the network and *)
(* the OCR engine are the environment: every call into them either         *)
(* succeeds or raises, chosen nondeterministically.                        *)
(***************************************************************************)
EXTENDS Integers, Sequences, FiniteSets, TLC

VARIABLES
    \* ---- CaptchaSolver / MercadoPublicoDownloader ----
    pc,               \* position of the single thread of control
    caller,           \* who calls solve: "client" or "downloader"
    ocr_kind,         \* the collaborator held in self.ocr_processor
    env,              \* what the page and the network did in this solve call
    captcha_text,     \* local of solve: the candidate text, or None
    field_text,       \* contents of the CAPTCHA input field in the page
    log,              \* browser/network/OCR calls issued by the current solve call
    injected,         \* return value of _input_captcha_text (None before it returns)
    solve_result,     \* return value of the last solve call (None before it returns)
    driver_alive,     \* FALSE once driver.quit() has been called
    n_links,          \* len(attachment_elements)
    link_i,           \* index of the attachment being downloaded, 1-based
    attempts,         \* solve calls made for the current attachment
    clicked,          \* download_button.click() happened for the current attachment
    file_path,        \* return value of the current _download_attachment
    downloaded_files, \* the list download_documents returns
    \* ---- OCRProcessor ----
    ocr_call,         \* the method called last and what the engine reported to it
    ocr_locals,       \* the locals of that call when it returned
    ocr_result,       \* the dictionary that call returned
    \* ---- OCRProcessor.batch_extract_text ----
    batch_pc,         \* position in batch_extract_text
    image_sources,    \* its argument: what each source will do to extract_text_from_image
    results,          \* its local list of results
    \* ---- OCRProcessor._load_image ----
    load_pc,          \* position in _load_image
    image_source,     \* its argument
    files,            \* the paths at which Image.open finds an image file
    img_data,         \* local: what base64.b64decode returned
    load_log,         \* the decoding and opening attempts made, in order
    loaded,           \* the image returned (NoImage before the return and on a raise)
    \* ---- OCRProcessor._preprocess_image ----
    pre_pc,           \* position: before the call, after it, after a second call
    img,              \* its argument
    pre_raises,       \* the step of the call that raises, or None
    pre_out,          \* what the call returned
    again_raises,     \* the step of a second call, on pre_out, that raises, or None
    pre_again,        \* what that second call returned
    engine_img,       \* the image extract_text_from_image hands to the engine
    \* ---- cl_tender_bot.extraction_engine: PageContentParser, ResultWriter ----
    ee_call,          \* the method called, its arguments and what the file system will do
    ee_return,        \* what the call returned
    ee_file,          \* the file at output_path
    \* ---- cl_tender_bot.extraction_engine: WebpageNavigator ----
    headless,         \* self.headless
    browser_instance, \* self.browser_instance: 0 for None, else the number of the session
    started,          \* browser sessions started so far
    quits,            \* quit() calls received by each session
    stale_loads,      \* get() calls issued on a session that had been quit
    nav_calls,        \* calls made on the navigator so far
    nav_return,       \* what the last call returned, or "raised"
    \* ---- scraper.intelligent_search: IntelligentTenderSearch ----
    search_call,      \* the method called, the profile, and the tenders or API responses
    search_result     \* what the call returned

captchaVars == <<pc, caller, ocr_kind, env, captcha_text, field_text, log, injected,
                 solve_result, driver_alive, n_links, link_i, attempts, clicked,
                 file_path, downloaded_files>>
ocrVars == <<ocr_call, ocr_locals, ocr_result>>
batchVars == <<batch_pc, image_sources, results>>
loadVars == <<load_pc, image_source, files, img_data, load_log, loaded>>
preVars == <<pre_pc, img, pre_raises, pre_out, again_raises, pre_again, engine_img>>
engineVars == <<ee_call, ee_return, ee_file>>
navVars == <<headless, browser_instance, started, quits, stale_loads, nav_calls, nav_return>>
searchVars == <<search_call, search_result>>
tailVars == <<navVars, searchVars>>
restVars == <<batchVars, loadVars, preVars, engineVars, tailVars>>
vars == <<captchaVars, ocrVars, restVars>>

None == "None"
\* None where a str is expected: characters are one-character strings, so no text
\* equals this sequence
NoText == <<"None">>
\* Python's True and False where None is possible too
PyTrue == "True"
PyFalse == "False"

-----------------------------------------------------------------------------
(* Bounds of the model. *)

MaxLinks == 2
MaxTokens == 3

-----------------------------------------------------------------------------
(* Python's str.strip(), str.split() and truth of a string. *)

Whitespace == {" ", "\n"}

RECURSIVE LStrip(_)
LStrip(s) ==
    IF s = <<>> THEN <<>>
    ELSE IF Head(s) \in Whitespace THEN LStrip(Tail(s)) ELSE s

RECURSIVE RStrip(_)
RStrip(s) ==
    IF s = <<>> THEN <<>>
    ELSE IF s[Len(s)] \in Whitespace THEN RStrip(SubSeq(s, 1, Len(s) - 1)) ELSE s

Strip(s) == RStrip(LStrip(s))

\* a variant of SplitCount that counts characters: len(text)
SplitCount_Len(s) == Len(s)

\* len(text.split()): the number of maximal runs of non-whitespace characters
RECURSIVE SplitCount(_)
SplitCount(s) ==
    IF s = <<>> THEN 0
    ELSE IF Head(s) \in Whitespace THEN SplitCount(Tail(s))
    ELSE IF Len(s) = 1 \/ s[2] \in Whitespace THEN 1 + SplitCount(Tail(s))
    ELSE SplitCount(Tail(s))

-----------------------------------------------------------------------------
(* OCRProcessor (scraper/ocr.py) *)

\* One row of the engine's image_to_data output: left, top, confidence and text of a
\* token (the lists the code zips have one entry per token).
Token(l, t, c, txt) == [left |-> l, top |-> t, conf |-> c, text |-> txt]

\* tokens the engine may report to extract_table_data
TableTokens ==
    { Token(10, 95, 80, <<"a">>), Token(20, 100, 80, <<"a">>), Token(10, 104, 80, <<"a">>),
      Token(10, 105, 80, <<"a">>), Token(20, 112, 80, <<"a">>) }
    \cup { Token(10, 100, 90, <<"b">>), Token(20, 115, 90, <<"b", " ">>) }
    \cup { Token(10, 100, 0, <<"a">>), Token(20, 104, -1, <<"a">>),
           Token(10, 112, 80, <<" ">>), Token(20, 100, 80, <<>>) }

\* confidences the engine may report to extract_text_from_image
Confidences == {-1, 0, 60, 95, 150}

\* texts image_to_string may return
PageTexts == { <<>>, <<"\n">>, <<"A", "B", "\n">>, <<" ", "A", " ", "B", "\n">> }

SeqsUpTo(S, n) == UNION { [1..k -> S] : k \in 0..n }

\* round(y / 10) * 10: Python 3 rounds a float half to even, and y / 10 is exactly
\* q + 0.5 when y = 10 q + 5
RowKey_Floor(y) == (y \div 10) * 10

\* a variant of RowKey with rows 20 pixels wide
RowKey_Twenty(y) == (y \div 20) * 20

RowKey(y) ==
    LET q == y \div 10
        r == y % 10
    IN  IF r < 5 THEN q * 10
        ELSE IF r > 5 THEN (q + 1) * 10
        ELSE IF q % 2 = 0 THEN q * 10 ELSE (q + 1) * 10

\* int(conf) > 0 and text.strip()
Qualifies_NonNegative(tok) == tok.conf >= 0 /\ Strip(tok.text) # <<>>

Qualifies(tok) == tok.conf > 0 /\ Strip(tok.text) # <<>>

\* the loop over the tokens: rows[row_key].append({'x': x, 'text': text, 'conf': conf});
\* i is the index enumerate() gives the token
RECURSIVE GroupRows(_, _, _)
GroupRows(data, i, rows) ==
    IF i > Len(data) THEN rows
    ELSE LET tok == data[i]
             row_key == RowKey(tok.top)
             item == [i |-> i, x |-> tok.left, text |-> tok.text, conf |-> tok.conf]
         IN  IF Qualifies(tok)
             THEN GroupRows(data, i + 1,
                            IF row_key \in DOMAIN rows
                            THEN [rows EXCEPT ![row_key] = Append(@, item)]
                            ELSE rows @@ (row_key :> <<item>>))
             ELSE GroupRows(data, i + 1, rows)

\* sorted(rows.keys())
RECURSIVE SortedKeys(_)
SortedKeys(S) ==
    IF S = {} THEN <<>>
    ELSE LET m == CHOOSE k \in S : \A j \in S : k <= j
         IN  <<m>> \o SortedKeys(S \ {m})

\* sorted(items, key=lambda x: x['x']): a stable sort
SortByX_Unsorted(items) == items

RECURSIVE SortByX(_)
SortByX(items) ==
    IF items = <<>> THEN <<>>
    ELSE LET n == Len(items)
             e == items[n]
             front == SortByX(SubSeq(items, 1, n - 1))
             p == Cardinality({k \in 1..Len(front) : front[k].x <= e.x})
         IN  SubSeq(front, 1, p) \o <<e>> \o SubSeq(front, p + 1, Len(front))

\* confidences = [int(conf) for conf in data['confidence'] if int(conf) > 0]
PositiveConfidences_NonNegative(confs) == SelectSeq(confs, LAMBDA c : c >= 0)

PositiveConfidences(confs) == SelectSeq(confs, LAMBDA c : c > 0)

RECURSIVE Sum(_)
Sum(confs) == IF confs = <<>> THEN 0 ELSE Head(confs) + Sum(Tail(confs))

\* sum(confidences) / len(confidences) if confidences else 0, as an exact fraction
AvgConfidence(confs) ==
    LET confidences == PositiveConfidences(confs)
    IN  IF confidences # <<>>
        THEN [num |-> Sum(confidences), den |-> Len(confidences)]
        ELSE [num |-> 0, den |-> 1]

\* the except clause of extract_text_from_image; message is str(e)
TextError(message) ==
    [text |-> <<>>, confidence |-> [num |-> 0, den |-> 1], word_count |-> 0,
     success |-> FALSE, error |-> message]

\* the except clause of extract_table_data; message is str(e)
TableError_NoMessage(message) == [table |-> <<>>, row_count |-> 0, success |-> FALSE]

TableError(message) ==
    [table |-> <<>>, row_count |-> 0, success |-> FALSE, error |-> message]

\* what _preprocess_image does in a call: "off" when enable_preprocessing is False,
\* "failed" when a step of it raises
PreprocessOutcomes == {"ok", "failed", "off"}

\* the exceptions of a call, named by the step that raises; "tesseract_not_found" is
\* pytesseract's TesseractNotFoundError, raised by the first call into the engine
TextRaises == {"_load_image", "tesseract_not_found", "image_to_string", "image_to_data"}
TableRaises == {"_load_image", "tesseract_not_found", "image_to_data"}

\* the calls a caller may make, with what the engine reports in each: the token
\* rows and page text of the image, or the step that raises
TextCalls ==
    { [method |-> "extract_text_from_image", raised |-> None, preprocess |-> pre,
       text |-> text, confidence |-> confs] :
          pre \in PreprocessOutcomes, text \in PageTexts,
          confs \in SeqsUpTo(Confidences, MaxTokens) }
    \cup { [method |-> "extract_text_from_image", raised |-> raised, preprocess |-> pre] :
             raised \in TextRaises, pre \in PreprocessOutcomes }

TableCalls ==
    { [method |-> "extract_table_data", raised |-> None, preprocess |-> pre,
       data |-> data] :
          pre \in PreprocessOutcomes, data \in SeqsUpTo(TableTokens, MaxTokens) }
    \cup { [method |-> "extract_table_data", raised |-> raised, preprocess |-> pre] :
             raised \in TableRaises, pre \in PreprocessOutcomes }

\* a call that has not returned yet
Pending == [pending |-> TRUE]

\* the image handed to the engine: img = self._preprocess_image(img), which returns
\* its argument when a step fails, or img as loaded
EngineImage(call) == IF call.preprocess = "ok" THEN "preprocessed" ELSE "original"

\* the dictionary extract_text_from_image returns for a call
TextResult(call) ==
    IF call.raised = None
    THEN [text |-> Strip(call.text),
          confidence |-> AvgConfidence(call.confidence),
          word_count |-> SplitCount(call.text),
          success |-> TRUE]
    ELSE TextError(call.raised)

\* extract_text_from_image: _load_image, _preprocess_image (which never raises),
\* image_to_string and image_to_data; any exception gives the error record
ExtractTextFromImage ==
    /\ ocr_result = Pending
    /\ ocr_call.method = "extract_text_from_image"
    /\ ocr_locals' = IF ocr_call.raised = None
                     THEN [method |-> "extract_text_from_image",
                           image |-> EngineImage(ocr_call),
                           confidences |-> PositiveConfidences(ocr_call.confidence)]
                     ELSE [method |-> "extract_text_from_image"]
    /\ ocr_result' = TextResult(ocr_call)
    /\ UNCHANGED <<captchaVars, ocr_call, restVars>>

\* extract_table_data: _load_image, _preprocess_image, image_to_data, the grouping
\* of the tokens into rows and the two sorts
ExtractTableData ==
    /\ ocr_result = Pending
    /\ ocr_call.method = "extract_table_data"
    /\ IF ocr_call.raised = None
       THEN LET rows == GroupRows(ocr_call.data, 1, <<>>)
                keys == SortedKeys(DOMAIN rows)
                row_data == [r \in 1..Len(keys) |-> SortByX(rows[keys[r]])]
                sorted_rows == [r \in 1..Len(keys) |->
                                  [c \in 1..Len(row_data[r]) |-> row_data[r][c].text]]
            IN  /\ ocr_locals' = [method |-> "extract_table_data",
                                  image |-> EngineImage(ocr_call), keys |-> keys,
                                  row_data |-> row_data]
                /\ ocr_result' = [table |-> sorted_rows, row_count |-> Len(sorted_rows),
                                  success |-> TRUE]
       ELSE /\ ocr_locals' = [method |-> "extract_table_data"]
            /\ ocr_result' = TableError(ocr_call.raised)
    /\ UNCHANGED <<captchaVars, ocr_call, restVars>>

-----------------------------------------------------------------------------
(* CaptchaSolver (scraper/captcha_solver.py) *)

\* the texts an engine may read in a challenge image
ImageTexts == { <<>>, <<" ", "\n">>, <<"A", "B">>, <<" ", "A", "B", "\n">> }

\* what the input field may hold when the page is loaded
FieldTexts == { <<>>, <<"X">> }

EnvUnknown ==
    [img |-> None, src |-> None, download |-> None, img_text |-> NoText, ocr |-> None,
     by_id |-> None]

\* a variant of Truthy that tests "captcha_text is not None" alone
Truthy_NotNone(text) == text # NoText

\* "not captcha_text" is False: neither None nor the empty string
Truthy(text) == text # NoText /\ text # <<>>

\* OCRProcessor defines extract_text_from_image, extract_table_data, batch_extract_text,
\* set_language and validate_tesseract, and no extract_text: the call at
\* captcha_solver.py:90 raises AttributeError on the default collaborator.
HasExtractText(kind) == kind # "OCRProcessor"

\* captcha_text.strip() if captcha_text else None
ExtractedText(raw) == IF Truthy(raw) THEN Strip(raw) ELSE NoText

\* a variant of AfterExtract that starts the extraction again when it failed
AfterExtract_Retry(text) == IF text # NoText /\ text # <<>> THEN "find_id" ELSE "find_img"

\* solve, after _extract_captcha_text returned text: go on to the input field,
\* or return False
AfterExtract(text) == IF Truthy(text) THEN "find_id" ELSE "returned"

\* solve, after _input_captcha_text returned ok: its value is dropped, solve
\* logs "CAPTCHA solved" and returns True
SolveResultAfterInput(ok) == PyTrue

\* the start of a solve call
SolveBegins ==
    /\ pc' = "find_img"
    /\ env' = EnvUnknown
    /\ captcha_text' = NoText
    /\ log' = <<>>
    /\ injected' = None
    /\ solve_result' = None

\* _extract_captcha_text returns text to solve
ExtractReturns(text) ==
    /\ captcha_text' = text
    /\ pc' = AfterExtract(text)
    /\ solve_result' = IF AfterExtract(text) = "returned" THEN PyFalse ELSE solve_result

\* _input_captcha_text returns ok to solve, which returns
InputReturns(ok) ==
    /\ injected' = ok
    /\ solve_result' = SolveResultAfterInput(ok)
    /\ pc' = "returned"

downloaderVars == <<driver_alive, n_links, link_i, attempts, clicked, file_path,
                    downloaded_files>>

\* a direct caller of CaptchaSolver.solve
SolveCall ==
    /\ pc = "idle" /\ caller = "client"
    /\ SolveBegins
    /\ UNCHANGED <<caller, ocr_kind, field_text, downloaderVars, ocrVars, restVars>>

SolveReturn ==
    /\ pc = "returned" /\ caller = "client"
    /\ pc' = "idle"
    /\ UNCHANGED <<caller, ocr_kind, env, captcha_text, field_text, log, injected,
                   solve_result, downloaderVars, ocrVars, restVars>>

\* WebDriverWait(...).until(presence_of_element_located(...)): the image or a timeout
FindImage ==
    /\ pc = "find_img"
    /\ log' = Append(log, "find_img")
    /\ \E found \in BOOLEAN :
         /\ env' = [env EXCEPT !.img = IF found THEN "ok" ELSE "fail"]
         /\ IF found
            THEN pc' = "get_src" /\ UNCHANGED <<captcha_text, solve_result>>
            ELSE ExtractReturns(NoText)
    /\ UNCHANGED <<caller, ocr_kind, field_text, injected, downloaderVars, ocrVars, restVars>>

\* captcha_img.get_attribute("src")
GetSrc ==
    /\ pc = "get_src"
    /\ log' = Append(log, "get_src")
    /\ \E src \in {"ok", "empty", "raise"} :
         /\ env' = [env EXCEPT !.src = src]
         /\ IF src = "ok"
            THEN pc' = "fetch" /\ UNCHANGED <<captcha_text, solve_result>>
            ELSE ExtractReturns(NoText)
    /\ UNCHANGED <<caller, ocr_kind, field_text, injected, downloaderVars, ocrVars, restVars>>

\* _download_image: requests.get, raise_for_status, Image.open; None on any failure
DownloadImage ==
    /\ pc = "fetch"
    /\ log' = Append(log, "fetch")
    /\ \/ /\ \E t \in ImageTexts :
               env' = [env EXCEPT !.download = "ok", !.img_text = t]
          /\ pc' = "ocr"
          /\ UNCHANGED <<captcha_text, solve_result>>
       \/ /\ env' = [env EXCEPT !.download = "fail"]
          /\ ExtractReturns(NoText)
    /\ UNCHANGED <<caller, ocr_kind, field_text, injected, downloaderVars, ocrVars, restVars>>

\* self.ocr_processor.extract_text(img_data), stripped
RecognizeText ==
    /\ pc = "ocr"
    /\ IF HasExtractText(ocr_kind)
       THEN /\ log' = Append(log, "ocr")
            /\ \/ /\ env' = [env EXCEPT !.ocr = "ok"]
                  /\ ExtractReturns(ExtractedText(env.img_text))
               \/ /\ env' = [env EXCEPT !.ocr = "raise"]
                  /\ ExtractReturns(NoText)
       ELSE /\ log' = log
            /\ env' = [env EXCEPT !.ocr = "no_method"]
            /\ ExtractReturns(NoText)
    /\ UNCHANGED <<caller, ocr_kind, field_text, injected, downloaderVars, ocrVars, restVars>>

\* a variant of AfterFindById that tries the CSS selector whatever the lookup gave
AfterFindById_AlwaysCss(found) == "find_css"

\* _input_captcha_text, after find_element(By.ID, ...): the except clause, with the
\* lookup by CSS selector, is entered only when it raised
AfterFindById(found) == IF found THEN "clear" ELSE "find_css"

\* self.driver.find_element(By.ID, input_id)
FindById ==
    /\ pc = "find_id"
    /\ log' = Append(log, "find_id")
    /\ \E found \in BOOLEAN :
          /\ env' = [env EXCEPT !.by_id = IF found THEN "ok" ELSE "fail"]
          /\ pc' = AfterFindById(found)
    /\ UNCHANGED <<caller, ocr_kind, captcha_text, field_text, injected,
                   solve_result, downloaderVars, ocrVars, restVars>>

\* self.driver.find_element(By.CSS_SELECTOR, "#" + input_id)
FindByCss ==
    /\ pc = "find_css"
    /\ log' = Append(log, "find_css")
    /\ \/ /\ pc' = "clear"
          /\ UNCHANGED <<injected, solve_result>>
       \/ InputReturns(PyFalse)
    /\ UNCHANGED <<caller, ocr_kind, env, captcha_text, field_text, downloaderVars, ocrVars, restVars>>

\* input_field.clear()
ClearField ==
    /\ pc = "clear"
    /\ log' = Append(log, "clear")
    /\ \/ /\ field_text' = <<>>
          /\ pc' = "send_keys"
          /\ UNCHANGED <<injected, solve_result>>
       \/ /\ InputReturns(PyFalse)
          /\ UNCHANGED field_text
    /\ UNCHANGED <<caller, ocr_kind, env, captcha_text, downloaderVars, ocrVars, restVars>>

\* input_field.send_keys(text)
SendKeys ==
    /\ pc = "send_keys"
    /\ log' = Append(log, "send_keys")
    /\ \/ /\ field_text' = field_text \o captcha_text
          /\ InputReturns(PyTrue)
       \/ /\ InputReturns(PyFalse)
          /\ UNCHANGED field_text
    /\ UNCHANGED <<caller, ocr_kind, env, captcha_text, downloaderVars, ocrVars, restVars>>

SolveStep ==
    \/ FindImage \/ GetSrc \/ DownloadImage \/ RecognizeText
    \/ FindById \/ FindByCss \/ ClearField \/ SendKeys

-----------------------------------------------------------------------------
(* MercadoPublicoDownloader (scraper/downloader.py), the caller of solve *)

solverLocals == <<env, captcha_text, log, injected, solve_result>>

\* _download_attachment returns path (None on failure) to download_documents
AttachmentReturns(path) ==
    /\ file_path' = path
    /\ pc' = "att_done"

\* a variant of AfterSolve that checks for the CAPTCHA and solves again after a failure
AfterSolve_Retry(result) == IF result = PyTrue THEN "click" ELSE "has_captcha"

\* a variant of AfterSolve that goes on to the download button whatever solve returned
AfterSolve_Ignore(result) == "click"

\* _download_attachment, after self.captcha_solver.solve() returned result:
\* go on to the download button, or return None
AfterSolve(result) == IF result = PyTrue THEN "click" ELSE "att_done"

\* download_documents: driver.get(tender_url), the wait for the tender's links and
\* _find_attachment_links; any exception leads to the finally clause
DownloadDocuments ==
    /\ pc = "idle" /\ caller = "downloader"
    /\ downloaded_files' = <<>>
    /\ \/ /\ driver_alive
          /\ \E n \in 0..MaxLinks : n_links' = n
          /\ link_i' = 1
          /\ pc' = "loop"
       \/ /\ pc' = "close"
          /\ UNCHANGED <<n_links, link_i>>
    /\ UNCHANGED <<caller, ocr_kind, field_text, solverLocals, driver_alive, attempts,
                   clicked, file_path, ocrVars, restVars>>

\* for i, link in enumerate(attachment_elements)
NextAttachment ==
    /\ pc = "loop"
    /\ IF link_i <= n_links
       THEN /\ pc' = "att_get"
            /\ attempts' = 0
            /\ clicked' = FALSE
            /\ file_path' = None
       ELSE /\ pc' = "close"
            /\ UNCHANGED <<attempts, clicked, file_path>>
    /\ UNCHANGED <<caller, ocr_kind, field_text, solverLocals, driver_alive, n_links,
                   link_i, downloaded_files, ocrVars, restVars>>

\* _download_attachment: self.driver.get(attachment_url) loads a new page
OpenAttachment ==
    /\ pc = "att_get"
    /\ \/ /\ \E t \in FieldTexts : field_text' = t
          /\ pc' = "has_captcha"
          /\ UNCHANGED file_path
       \/ /\ AttachmentReturns(None)
          /\ UNCHANGED field_text
    /\ UNCHANGED <<caller, ocr_kind, solverLocals, driver_alive, n_links, link_i,
                   attempts, clicked, downloaded_files, ocrVars, restVars>>

\* if self._has_captcha(): if not self.captcha_solver.solve(): ...
HasCaptcha ==
    /\ pc = "has_captcha"
    /\ \/ /\ SolveBegins
          /\ attempts' = attempts + 1
       \/ /\ pc' = "click"
          /\ UNCHANGED <<solverLocals, attempts>>
    /\ UNCHANGED <<caller, ocr_kind, field_text, driver_alive, n_links, link_i,
                   clicked, file_path, downloaded_files, ocrVars, restVars>>

\* solve returns to _download_attachment
SolveReturnsToDownloader ==
    /\ pc = "returned" /\ caller = "downloader"
    /\ pc' = AfterSolve(solve_result)
    /\ file_path' = IF AfterSolve(solve_result) = "att_done" THEN None ELSE file_path
    /\ UNCHANGED <<caller, ocr_kind, field_text, solverLocals, driver_alive, n_links,
                   link_i, attempts, clicked, downloaded_files, ocrVars, restVars>>

\* the wait for the download button, and download_button.click()
ClickDownload ==
    /\ pc = "click"
    /\ \/ /\ clicked' = TRUE
          /\ pc' = "latest"
          /\ UNCHANGED file_path
       \/ /\ AttachmentReturns(None)
          /\ UNCHANGED clicked
    /\ UNCHANGED <<caller, ocr_kind, field_text, solverLocals, driver_alive, n_links,
                   link_i, attempts, downloaded_files, ocrVars, restVars>>

\* return self._get_latest_download(): the newest file of output_dir, or None
GetLatestDownload ==
    /\ pc = "latest"
    /\ \E path \in {None, "file"} : AttachmentReturns(path)
    /\ UNCHANGED <<caller, ocr_kind, field_text, solverLocals, driver_alive, n_links,
                   link_i, attempts, clicked, downloaded_files, ocrVars, restVars>>

\* if file_path: downloaded_files.append(file_path); the entry is tagged with its link
AttachmentDone ==
    /\ pc = "att_done"
    /\ downloaded_files' = IF file_path # None
                           THEN Append(downloaded_files, [link |-> link_i, path |-> file_path])
                           ELSE downloaded_files
    /\ link_i' = link_i + 1
    /\ pc' = "loop"
    /\ UNCHANGED <<caller, ocr_kind, field_text, solverLocals, driver_alive, n_links,
                   attempts, clicked, file_path, ocrVars, restVars>>

\* a variant of Close that leaves the browser running
Close_NoQuit ==
    /\ pc = "close"
    /\ pc' = "done"
    /\ UNCHANGED <<caller, ocr_kind, field_text, solverLocals, driver_alive, n_links, link_i,
                   attempts, clicked, file_path, downloaded_files, ocrVars, restVars>>

\* finally: self.close(): driver.quit(), whose exception is logged and dropped
Close ==
    /\ pc = "close"
    /\ driver_alive' = FALSE
    /\ pc' = "done"
    /\ UNCHANGED <<caller, ocr_kind, field_text, solverLocals, n_links, link_i, attempts,
                   clicked, file_path, downloaded_files, ocrVars, restVars>>

\* return downloaded_files
DownloadDocumentsReturns ==
    /\ pc = "done"
    /\ pc' = "idle"
    /\ UNCHANGED <<caller, ocr_kind, field_text, solverLocals, downloaderVars, ocrVars, restVars>>

DownloaderStep ==
    \/ DownloadDocuments \/ NextAttachment \/ OpenAttachment \/ HasCaptcha
    \/ SolveReturnsToDownloader \/ ClickDownload \/ GetLatestDownload
    \/ AttachmentDone \/ Close \/ DownloadDocumentsReturns

\* OCRProcessor at rest
OcrIdle ==
    /\ ocr_call = [method |-> None]
    /\ ocr_locals = [method |-> None]
    /\ ocr_result = [success |-> None]

\* no batch_extract_text call
BatchIdle ==
    /\ batch_pc = "idle"
    /\ image_sources = <<>>
    /\ results = <<>>

NoImage == [format |-> None]

\* no _load_image call
LoadIdle ==
    /\ load_pc = "idle"
    /\ image_source = [type |-> None]
    /\ files = {}
    /\ img_data = <<>>
    /\ load_log = <<>>
    /\ loaded = NoImage

\* no _preprocess_image call
PreIdle ==
    /\ pre_pc = "idle"
    /\ img = NoImage
    /\ pre_raises = None
    /\ pre_out = NoImage
    /\ again_raises = None
    /\ pre_again = NoImage
    /\ engine_img = NoImage

NoFile == [exists |-> FALSE]

\* no call into extraction_engine
EngineIdle ==
    /\ ee_call = [method |-> None]
    /\ ee_return = [value |-> None]
    /\ ee_file = NoFile

MaxCalls == 6

\* WebpageNavigator(headless_mode=True), not called yet
NavIdle ==
    /\ headless = TRUE
    /\ browser_instance = 0
    /\ started = 0
    /\ quits = [s \in 1..MaxCalls |-> 0]
    /\ stale_loads = 0
    /\ nav_calls = 0
    /\ nav_return = None

\* no call into IntelligentTenderSearch
SearchIdle ==
    /\ search_call = [method |-> None]
    /\ search_result = [value |-> None]

TailIdle == NavIdle /\ SearchIdle

RestIdle == BatchIdle /\ LoadIdle /\ PreIdle /\ EngineIdle /\ TailIdle

\* CaptchaSolver and MercadoPublicoDownloader at rest
CaptchaIdle ==
    /\ pc = "idle"
    /\ caller = "client" /\ ocr_kind = "OCRProcessor"
    /\ env = EnvUnknown
    /\ captcha_text = NoText
    /\ field_text = <<>>
    /\ log = <<>>
    /\ injected = None
    /\ solve_result = None
    /\ driver_alive = TRUE
    /\ n_links = 0
    /\ link_i = 1
    /\ attempts = 0
    /\ clicked = FALSE
    /\ file_path = None
    /\ downloaded_files = <<>>

\* CaptchaSolver(driver, ocr_processor) built by a client with some collaborator, or
\* MercadoPublicoDownloader(), which builds CaptchaSolver(self.driver, OCRProcessor())
InitCaptcha ==
    /\ pc = "idle"
    /\ \/ caller = "client" /\ ocr_kind \in {"OCRProcessor", "stub"}
       \/ caller = "downloader" /\ ocr_kind = "OCRProcessor"
    /\ env = EnvUnknown
    /\ captcha_text = NoText
    /\ field_text \in FieldTexts
    /\ log = <<>>
    /\ injected = None
    /\ solve_result = None
    /\ driver_alive = TRUE
    /\ n_links = 0
    /\ link_i = 1
    /\ attempts = 0
    /\ clicked = FALSE
    /\ file_path = None
    /\ downloaded_files = <<>>
    /\ OcrIdle
    /\ RestIdle

NextCaptcha == SolveCall \/ SolveReturn \/ SolveStep \/ DownloaderStep

SpecCaptcha == InitCaptcha /\ [][NextCaptcha]_vars

-----------------------------------------------------------------------------
(* Claims about CaptchaSolver and its caller, checked under SpecCaptcha *)

SubmissionEvents == {"find_id", "find_css", "clear", "send_keys"}

Occurrences(e) == Cardinality({i \in 1..Len(log) : log[i] = e})

\* the extraction of the current solve call is known to have failed
ExtractionFailed ==
    \/ env.img = "fail"
    \/ env.src \in {"empty", "raise"}
    \/ env.download = "fail"
    \/ env.ocr \in {"raise", "no_method"}
    \/ env.ocr = "ok" /\ Strip(env.img_text) = <<>>

\* C1: solve returns False whenever the lookup of the input field (by ID and by CSS)
\* or clear/send_keys fails, and True only when the candidate text was injected
C1_TrueOnlyWhenInjected ==
    pc = "returned" =>
        /\ solve_result = PyTrue => injected = PyTrue /\ field_text = captcha_text
        /\ injected = PyFalse => solve_result = PyFalse

\* C2: with the default OCRProcessor, an image that is found, downloads and holds
\* non-blank text makes solve take the stripped text, go to the input field and
\* return True
C2_DefaultProcessorSolves ==
    ( /\ pc = "returned"
      /\ ocr_kind = "OCRProcessor"
      /\ env.img = "ok" /\ env.src = "ok" /\ env.download = "ok"
      /\ Strip(env.img_text) # <<>> )
    => /\ captcha_text = Strip(env.img_text)
       /\ Occurrences("find_id") = 1
       /\ solve_result = PyTrue

\* C3: when the image is missing, has no src, does not download, or OCR raises or
\* reads only blanks, solve returns False and touches the input field in no way;
\* the field is looked up only once a non-empty candidate text is held
C3_NoSubmissionWithoutText ==
    /\ ExtractionFailed =>
         /\ solve_result = PyFalse
         /\ injected = None
         /\ \A i \in 1..Len(log) : log[i] \notin SubmissionEvents
    /\ (\E i \in 1..Len(log) : log[i] \in SubmissionEvents) =>
         /\ env.ocr = "ok"
         /\ captcha_text = Strip(env.img_text)
         /\ Len(captcha_text) > 0

C3_Witness ==
    /\ pc = "returned"
    /\ env.ocr = "ok"
    /\ env.img_text = <<" ", "\n">>
    /\ solve_result = PyFalse

C5_NoRetryInsideSolve ==
    \A e \in {"find_img", "get_src", "fetch", "ocr", "find_id", "find_css", "clear", "send_keys"} :
        Occurrences(e) <= 1

C5_Witness ==
    /\ pc = "returned"
    /\ Occurrences("fetch") = 1 /\ Occurrences("ocr") = 1
    /\ Occurrences("clear") = 1 /\ Occurrences("send_keys") = 1
    /\ injected = PyFalse

\* C24: in _input_captcha_text the lookup by CSS selector is made only after the
\* lookup by ID failed, the field found is cleared before the text is typed (no
\* send_keys without the clear just before it), and nothing is typed when both
\* lookups fail
C24_LookupThenClearThenType ==
    /\ \A i \in 1..Len(log) :
          /\ log[i] = "find_css" => i > 1 /\ log[i - 1] = "find_id" /\ env.by_id = "fail"
          /\ log[i] = "clear" => i > 1 /\ log[i - 1] \in {"find_id", "find_css"}
          /\ log[i] = "send_keys" => i > 1 /\ log[i - 1] = "clear"
    /\ (pc = "returned" /\ Len(log) > 0 /\ log[Len(log)] = "find_css") =>
          /\ Occurrences("clear") = 0 /\ Occurrences("send_keys") = 0
          /\ injected = PyFalse

C24_Witness ==
    /\ pc = "returned"
    /\ env.by_id = "fail"
    /\ Occurrences("find_css") = 1
    /\ Occurrences("clear") = 1
    /\ log[Len(log)] = "send_keys"
    /\ injected = PyTrue
    /\ field_text = captcha_text

\* the entries of the list are tagged with links in strictly increasing order
InLinkOrder ==
    \A i, j \in 1..Len(downloaded_files) :
        i < j => downloaded_files[i].link < downloaded_files[j].link

C28_ClickOnlyAfterSolved ==
    (caller = "downloader" /\ attempts > 0) =>
        /\ pc \in {"click", "latest"} => solve_result = PyTrue
        /\ clicked => solve_result = PyTrue
        /\ (pc = "att_done" /\ solve_result = PyFalse) => ~clicked /\ file_path = None
        /\ (pc = "att_done" /\ file_path # None) => solve_result = PyTrue /\ clicked

C28_Witness ==
    /\ caller = "downloader" /\ pc = "att_done"
    /\ attempts = 1
    /\ solve_result = PyFalse
    /\ link_i = 2
    /\ ~clicked /\ file_path = None

-----------------------------------------------------------------------------
(* OCRProcessor on its own: one call of a caller that hands it an image *)

InitOcr ==
    /\ pc = "idle"
    /\ caller = "client" /\ ocr_kind = "OCRProcessor"
    /\ env = EnvUnknown
    /\ captcha_text = NoText
    /\ field_text = <<>>
    /\ log = <<>>
    /\ injected = None
    /\ solve_result = None
    /\ driver_alive = TRUE
    /\ n_links = 0
    /\ link_i = 1
    /\ attempts = 0
    /\ clicked = FALSE
    /\ file_path = None
    /\ downloaded_files = <<>>
    /\ ocr_call \in TextCalls \cup TableCalls
    /\ ocr_locals = [method |-> None]
    /\ ocr_result = Pending
    /\ RestIdle

NextOcr == ExtractTextFromImage \/ ExtractTableData

SpecOcr == InitOcr /\ [][NextOcr]_vars

-----------------------------------------------------------------------------
(* Claims about OCRProcessor, checked under SpecOcr *)

\* the call of method m returned without an exception inside it
ReturnedOk(m) ==
    /\ ocr_call.method = m
    /\ ocr_result # Pending
    /\ ocr_call.raised = None

\* a token the table must keep: positive confidence and a character that is not blank
Kept(tok) == tok.conf > 0 /\ \E k \in 1..Len(tok.text) : tok.text[k] \notin {" ", "\n"}

\* the multiple of 10 nearest to y; of two equally near ones, the even multiple of 10
NearestTen(y) ==
    CHOOSE m \in {10 * k : k \in 0..(y \div 10 + 1)} :
        /\ 2 * (IF y >= m THEN y - m ELSE m - y) <= 10
        /\ 2 * (IF y >= m THEN y - m ELSE m - y) = 10 => (m \div 10) % 2 = 0

\* the cells (row, column) of the table that hold token i
CellsOf(i) ==
    {rc \in (1..Len(ocr_locals.row_data)) \X (1..MaxTokens + 1) :
        /\ rc[2] <= Len(ocr_locals.row_data[rc[1]])
        /\ ocr_locals.row_data[rc[1]][rc[2]].i = i}

SameRow(i, j) == \E a \in CellsOf(i), b \in CellsOf(j) : a[1] = b[1]

\* C6: two kept tokens are in the same row exactly when round(y/10)*10 of their tops
\* is equal; tops 100 and 104 share a row, tops 100 and 112 do not
C6_SameRowIffSameQuantizedY ==
    ReturnedOk("extract_table_data") =>
        LET data == ocr_call.data
        IN  \A i, j \in 1..Len(data) :
                (Kept(data[i]) /\ Kept(data[j])) =>
                    /\ SameRow(i, j) <=> NearestTen(data[i].top) = NearestTen(data[j].top)
                    /\ (data[i].top = 100 /\ data[j].top = 104) => SameRow(i, j)
                    /\ (data[i].top = 100 /\ data[j].top = 112) => ~SameRow(i, j)

\* C26 as stated: two tokens placed in the same row have tops that differ by less
\* than 10 pixels
C26_SameRowLessThanTenApart ==
    ReturnedOk("extract_table_data") =>
        \A i, j \in 1..Len(ocr_call.data) :
            (Kept(ocr_call.data[i]) /\ Kept(ocr_call.data[j]) /\ SameRow(i, j)) =>
                /\ ocr_call.data[i].top - ocr_call.data[j].top < 10
                /\ ocr_call.data[j].top - ocr_call.data[i].top < 10

\* C26 amended: two tokens placed in the same row have tops that differ by at most 10
\* pixels; exactly 10 happens, for the tops 10 q - 5 and 10 q + 5 with q even, both
\* of which round to 10 q
C26_SameRowAtMostTenApart ==
    ReturnedOk("extract_table_data") =>
        \A i, j \in 1..Len(ocr_call.data) :
            (Kept(ocr_call.data[i]) /\ Kept(ocr_call.data[j])) =>
                /\ SameRow(i, j) => ocr_call.data[i].top - ocr_call.data[j].top <= 10
                /\ (ocr_call.data[i].top = 95 /\ ocr_call.data[j].top = 105) => SameRow(i, j)

C26_Witness ==
    /\ ReturnedOk("extract_table_data")
    /\ Len(ocr_call.data) = 2
    /\ ocr_call.data[1].top = 105 /\ ocr_call.data[2].top = 95
    /\ Kept(ocr_call.data[1]) /\ Kept(ocr_call.data[2])
    /\ SameRow(1, 2)
    /\ ocr_result.row_count = 1

C6_Witness ==
    /\ ReturnedOk("extract_table_data")
    /\ \E i, j, k \in 1..Len(ocr_call.data) :
         /\ ocr_call.data[i].top = 100 /\ ocr_call.data[j].top = 104
         /\ ocr_call.data[k].top = 112
         /\ SameRow(i, j) /\ ~SameRow(i, k)
         /\ ocr_result.row_count = 2

\* C7: the rows of the table are in ascending order of their quantized y, each
\* quantized y in one row only, and the cells of a row are in non-decreasing x
C7_RowsAndCellsOrdered ==
    ReturnedOk("extract_table_data") =>
        LET data == ocr_call.data
            row_data == ocr_locals.row_data
            table == ocr_result.table
        IN  /\ Len(table) = Len(row_data)
            /\ \A r \in 1..Len(table) :
                 /\ Len(table[r]) = Len(row_data[r])
                 /\ \A c \in 1..Len(table[r]) :
                      /\ table[r][c] = data[row_data[r][c].i].text
                      /\ \A d \in 1..Len(table[r]) :
                           c < d => data[row_data[r][c].i].left <= data[row_data[r][d].i].left
            /\ \A r, q \in 1..Len(table) :
                 r < q =>
                   \A c \in 1..Len(row_data[r]), d \in 1..Len(row_data[q]) :
                       NearestTen(data[row_data[r][c].i].top)
                           < NearestTen(data[row_data[q][d].i].top)

\* the sorts acted: a row whose cells, and two rows which, are not in input order
C7_Witness ==
    /\ ReturnedOk("extract_table_data")
    /\ Len(ocr_locals.row_data) = 2
    /\ Len(ocr_locals.row_data[1]) = 2
    /\ ocr_locals.row_data[1][1].i > ocr_locals.row_data[1][2].i
    /\ ocr_locals.row_data[1][1].i > ocr_locals.row_data[2][1].i

\* C8: the table holds every token with confidence > 0 and non-blank text in exactly
\* one cell, and no other token; no row is empty, row_count is the number of rows,
\* and with no such token the result is the empty table, row_count 0, success True
C8_ExactlyTheKeptTokens ==
    ReturnedOk("extract_table_data") =>
        LET data == ocr_call.data
            table == ocr_result.table
        IN  /\ ocr_result.success = TRUE
            /\ "error" \notin DOMAIN ocr_result
            /\ \A i \in 1..Len(data) :
                 Cardinality(CellsOf(i)) = IF Kept(data[i]) THEN 1 ELSE 0
            /\ \A r \in 1..Len(table) :
                 /\ Len(table[r]) >= 1
                 /\ Len(table[r]) = Len(ocr_locals.row_data[r])
                 /\ \A c \in 1..Len(table[r]) :
                      table[r][c] = data[ocr_locals.row_data[r][c].i].text
            /\ ocr_result.row_count = Len(table)
            /\ (\A i \in 1..Len(data) : ~Kept(data[i])) =>
                  table = <<>> /\ ocr_result.row_count = 0

C8_Witness ==
    /\ ReturnedOk("extract_table_data")
    /\ \E i, j, k \in 1..Len(ocr_call.data) :
         /\ Kept(ocr_call.data[i])
         /\ ocr_call.data[j].conf = 0
         /\ ocr_call.data[k].conf > 0 /\ ~Kept(ocr_call.data[k])
    /\ ocr_result.row_count = 1

RECURSIVE TotalAt(_, _)
TotalAt(confs, S) ==
    IF S = {} THEN 0
    ELSE LET i == CHOOSE x \in S : TRUE IN confs[i] + TotalAt(confs, S \ {i})

\* C9: the confidence is the mean of the token confidences greater than 0, and 0
\* when there is none; tokens with confidence 0 or -1 change nothing
C9_MeanOfPositiveConfidences ==
    ReturnedOk("extract_text_from_image") =>
        LET confs == ocr_call.confidence
            positive == {i \in 1..Len(confs) : confs[i] > 0}
            confidence == ocr_result.confidence
        IN  /\ confidence.den > 0
            /\ IF positive = {}
               THEN confidence.num = 0
               ELSE confidence.num * Cardinality(positive)
                        = TotalAt(confs, positive) * confidence.den

C9_Witness ==
    /\ ReturnedOk("extract_text_from_image")
    /\ ocr_call.confidence = <<-1, 60, 0>>
    /\ ocr_result.confidence = [num |-> 60, den |-> 1]

\* C10: the confidence lies in [0,100] whatever integer confidences the engine
\* reports, -1 and values above 100 included, and is 0 when all of them are 0
C10_ConfidenceWithin0To100 ==
    ReturnedOk("extract_text_from_image") =>
        /\ 0 <= ocr_result.confidence.num
        /\ ocr_result.confidence.num <= 100 * ocr_result.confidence.den
        /\ (\A i \in 1..Len(ocr_call.confidence) : ocr_call.confidence[i] = 0) =>
              ocr_result.confidence.num = 0


\* a call of either extraction method returned
Returned == ocr_call.method # None /\ ocr_result # Pending

\* the payload of the record is empty: text '', confidence 0, word_count 0, resp.
\* table [] and row_count 0
EmptyPayload ==
    IF ocr_call.method = "extract_text_from_image"
    THEN /\ ocr_result.text = <<>>
         /\ ocr_result.confidence.num = 0
         /\ ocr_result.word_count = 0
    ELSE /\ ocr_result.table = <<>>
         /\ ocr_result.row_count = 0

ErrorIffNotSuccess == ("error" \in DOMAIN ocr_result) <=> (ocr_result.success = FALSE)

\* C11 as stated: a failure in loading, preprocessing or OCR gives success False, an
\* error string and an empty payload; 'error' is present exactly when success is False
C11_AnyFailureGivesErrorRecord ==
    Returned =>
        /\ (ocr_call.raised # None \/ ocr_call.preprocess = "failed") =>
              /\ ocr_result.success = FALSE
              /\ "error" \in DOMAIN ocr_result
              /\ EmptyPayload
        /\ ErrorIffNotSuccess

\* C11 amended: a failure in loading or in the engine gives success False, an error
\* string and an empty payload; a failure inside _preprocess_image gives no error
\* record, the call goes on with the image as loaded; 'error' is present exactly when
\* success is False
C11_LoadOrEngineFailureGivesErrorRecord ==
    Returned =>
        /\ ocr_call.raised # None =>
              /\ ocr_result.success = FALSE
              /\ "error" \in DOMAIN ocr_result
              /\ ocr_result.error = ocr_call.raised
              /\ EmptyPayload
        /\ ocr_call.raised = None =>
              /\ ocr_result.success = TRUE
              /\ ocr_call.preprocess = "failed" => ocr_locals.image = "original"
        /\ ErrorIffNotSuccess

C11_Witness ==
    /\ Returned
    /\ ocr_call.method = "extract_table_data"
    /\ ocr_call.raised = "image_to_data"
    /\ ocr_call.preprocess = "failed"
    /\ ocr_result.success = FALSE

\* C13: when the engine runs and finds no text (blank page text, no token with a
\* positive confidence) the record is a valid one: success True, text '',
\* word_count 0, confidence 0, no 'error'
C13_NoTextIsAValidResult ==
    ( /\ ReturnedOk("extract_text_from_image")
      /\ \A k \in 1..Len(ocr_call.text) : ocr_call.text[k] \in {" ", "\n"}
      /\ \A k \in 1..Len(ocr_call.confidence) : ocr_call.confidence[k] <= 0 )
    => /\ ocr_result.success = TRUE
       /\ ocr_result.text = <<>>
       /\ ocr_result.word_count = 0
       /\ ocr_result.confidence.num = 0
       /\ "error" \notin DOMAIN ocr_result

C13_Witness ==
    /\ ReturnedOk("extract_text_from_image")
    /\ ocr_call.text = <<"\n">>
    /\ ocr_call.confidence = <<-1>>
    /\ ocr_result.success = TRUE
    /\ ocr_result.word_count = 0

-----------------------------------------------------------------------------
(* OCRProcessor.batch_extract_text: one call on a list of image sources *)

MaxBatch == 3

EngineUnavailable == "tesseract_not_found"

\* what a source of the list does to extract_text_from_image: it is read, it cannot
\* be loaded, or the engine is not installed (pytesseract.TesseractNotFoundError)
BatchSources ==
    { [method |-> "extract_text_from_image", raised |-> None, preprocess |-> "ok",
       text |-> <<"a", "\n">>, confidence |-> <<95>>],
      [method |-> "extract_text_from_image", raised |-> None, preprocess |-> "failed",
       text |-> <<" ", "b">>, confidence |-> <<60>>],
      [method |-> "extract_text_from_image", raised |-> "_load_image", preprocess |-> "ok"],
      [method |-> "extract_text_from_image", raised |-> EngineUnavailable,
       preprocess |-> "ok"] }

\* a variant of AfterBatchItem that leaves the loop when the engine is unavailable
AfterBatchItem_Abort(result) ==
    IF result.success = FALSE /\ result.error = EngineUnavailable
    THEN "return" ELSE "loop"

\* a variant of AfterBatchItem that leaves the loop at the first failing source
AfterBatchItem_StopOnFailure(result) == IF result.success THEN "loop" ELSE "return"

\* the for loop goes on to the next source whatever the result was
AfterBatchItem(result) == "loop"

\* one iteration of the loop: result = self.extract_text_from_image(source);
\* results.append(result)
BatchIteration ==
    /\ batch_pc = "loop"
    /\ Len(results) < Len(image_sources)
    /\ LET result == TextResult(image_sources[Len(results) + 1])
       IN /\ results' = Append(results, result)
          /\ batch_pc' = AfterBatchItem(result)
    /\ UNCHANGED <<captchaVars, ocrVars, image_sources, loadVars, preVars,
                   engineVars, tailVars>>

\* the list is exhausted
BatchLoopEnds ==
    /\ batch_pc = "loop"
    /\ Len(results) = Len(image_sources)
    /\ batch_pc' = "return"
    /\ UNCHANGED <<captchaVars, ocrVars, image_sources, results, loadVars, preVars,
                   engineVars, tailVars>>

\* return results
BatchReturn ==
    /\ batch_pc = "return"
    /\ batch_pc' = "returned"
    /\ UNCHANGED <<captchaVars, ocrVars, image_sources, results, loadVars, preVars,
                   engineVars, tailVars>>

InitBatch ==
    /\ CaptchaIdle
    /\ OcrIdle
    /\ batch_pc = "loop"
    /\ image_sources \in SeqsUpTo(BatchSources, MaxBatch)
    /\ results = <<>>
    /\ LoadIdle
    /\ PreIdle
    /\ EngineIdle
    /\ TailIdle

NextBatch == BatchIteration \/ BatchLoopEnds \/ BatchReturn

SpecBatch == InitBatch /\ [][NextBatch]_vars

\* the record of a per-image failure with the given message
FailureRecord(message) ==
    [text |-> <<>>, confidence |-> [num |-> 0, den |-> 1], word_count |-> 0,
     success |-> FALSE, error |-> message]

C25_ResultsInSourceOrder ==
    /\ Len(results) <= Len(image_sources)
    /\ batch_pc = "loop" \/ Len(results) = Len(image_sources)
    /\ \A i \in 1..Len(results) :
          /\ results[i].success <=> image_sources[i].raised = None
          /\ results[i].success => results[i].text = Strip(image_sources[i].text)
          /\ ~results[i].success => results[i].error = image_sources[i].raised

C25_Witness ==
    /\ batch_pc = "returned"
    /\ Len(results) = 3
    /\ results[1].success /\ results[1].text = <<"b">>
    /\ ~results[2].success /\ results[2].error = "_load_image"
    /\ results[3].success /\ results[3].text = <<"a">>

-----------------------------------------------------------------------------
(* OCRProcessor._load_image: one call on a source of any type.  Byte buffers *)
(* are sequences of integers 0..255 and texts are sequences of characters,   *)
(* so that base64 is computed.                                              *)

MaxPayload == 1

Alphabet ==
    << "A", "B", "C", "D", "E", "F", "G", "H", "I", "J", "K", "L", "M",
       "N", "O", "P", "Q", "R", "S", "T", "U", "V", "W", "X", "Y", "Z",
       "a", "b", "c", "d", "e", "f", "g", "h", "i", "j", "k", "l", "m",
       "n", "o", "p", "q", "r", "s", "t", "u", "v", "w", "x", "y", "z",
       "0", "1", "2", "3", "4", "5", "6", "7", "8", "9", "+", "/" >>

AlphabetChars == { Alphabet[i] : i \in DOMAIN Alphabet }

\* the 6-bit value of a character of the alphabet
Sextet(c) == (CHOOSE i \in DOMAIN Alphabet : Alphabet[i] = c) - 1

Char(v) == Alphabet[v + 1]

\* base64.b64encode
RECURSIVE B64Encode(_)
B64Encode(bytes) ==
    IF Len(bytes) = 0 THEN <<>>
    ELSE IF Len(bytes) = 1
    THEN << Char(bytes[1] \div 4), Char((bytes[1] % 4) * 16), "=", "=" >>
    ELSE IF Len(bytes) = 2
    THEN << Char(bytes[1] \div 4),
            Char((bytes[1] % 4) * 16 + bytes[2] \div 16),
            Char((bytes[2] % 16) * 4), "=" >>
    ELSE << Char(bytes[1] \div 4),
            Char((bytes[1] % 4) * 16 + bytes[2] \div 16),
            Char((bytes[2] % 16) * 4 + bytes[3] \div 64),
            Char(bytes[3] % 64) >> \o B64Encode(SubSeq(bytes, 4, Len(bytes)))

\* the bytes a started quad of sextets stands for
QuadBytes(quad) ==
    IF Len(quad) = 4
    THEN << quad[1] * 4 + quad[2] \div 16,
            (quad[2] % 16) * 16 + quad[3] \div 4,
            (quad[3] % 4) * 64 + quad[4] >>
    ELSE IF Len(quad) = 3
    THEN << quad[1] * 4 + quad[2] \div 16, (quad[2] % 16) * 16 + quad[3] \div 4 >>
    ELSE << quad[1] * 4 + quad[2] \div 16 >>

DecodeError == [ok |-> FALSE]

\* binascii.a2b_base64 without validation: characters outside the alphabet are
\* skipped, a pad sequence that completes a quad ends the input, and data left in an
\* incomplete quad is an error (binascii.Error)
RECURSIVE A2bBase64(_, _, _, _)
A2bBase64(rest, quad, pads, out) ==
    IF Len(rest) = 0
    THEN IF Len(quad) = 0 THEN [ok |-> TRUE, bytes |-> out] ELSE DecodeError
    ELSE IF Head(rest) = "="
    THEN IF Len(quad) >= 2 /\ Len(quad) + pads + 1 >= 4
         THEN [ok |-> TRUE, bytes |-> out \o QuadBytes(quad)]
         ELSE A2bBase64(Tail(rest), quad, pads + 1, out)
    ELSE IF Head(rest) \notin AlphabetChars
    THEN A2bBase64(Tail(rest), quad, pads, out)
    ELSE IF Len(quad) = 3
    THEN A2bBase64(Tail(rest), <<>>, 0, out \o QuadBytes(Append(quad, Sextet(Head(rest)))))
    ELSE A2bBase64(Tail(rest), Append(quad, Sextet(Head(rest))), 0, out)

\* base64.b64decode(s)
B64Decode(text) == A2bBase64(text, <<>>, 0, <<>>)

\* the first bytes of the containers: JPEG FF D8 FF, PNG 89 50 4E, GIF 47 49 46
Magic ==
    [JPEG |-> <<255, 216, 255>>, PNG |-> <<137, 80, 78>>, GIF |-> <<71, 73, 70>>]

Formats == DOMAIN Magic

PayloadBytes == {7, 200}

\* the encoded images: a container's first bytes, then the pixel data
EncodedImages ==
    { Magic[f] \o payload : f \in Formats, payload \in SeqsUpTo(PayloadBytes, MaxPayload) }

OpenError == [ok |-> FALSE]

\* Image.open(io.BytesIO(data)): the container is identified by its first bytes
OpenBytes(data) ==
    IF Len(data) >= 3 /\ \E f \in Formats : SubSeq(data, 1, 3) = Magic[f]
    THEN [ok |-> TRUE,
          image |-> [format |-> CHOOSE f \in Formats : SubSeq(data, 1, 3) = Magic[f],
                     pixels |-> SubSeq(data, 4, Len(data))]]
    ELSE OpenError

\* what the image files of the file system hold
FileContent == Magic["PNG"] \o <<7>>

\* Image.open(path)
OpenPath(path) == IF path \in files THEN OpenBytes(FileContent) ELSE OpenError

\* Image.fromarray(array.astype('uint8'))
FromArray(array) ==
    IF array.ndim \in {2, 3}
    THEN [ok |-> TRUE, image |-> [format |-> "array", pixels |-> array.values]]
    ELSE OpenError

\* texts that are no base64 of an image: paths with and without a prefix, the name of
\* a file of the working directory, the base64 of a buffer that is no image
PlainTexts ==
    { <<"/", "a">>, <<".", "/", "a">>, <<"a", "b">>, <<"a", "b", "c", "d">>,
      <<"a", ".", "b", "c">>, <<>> }

BadBuffers == { <<>>, <<0, 0, 0>> }

ImageSources ==
    { [type |-> "PIL", pil |-> OpenBytes(b).image] : b \in EncodedImages }
    \cup { [type |-> "ndarray", array |-> [ndim |-> n, values |-> <<7>>]] : n \in {2, 3, 5} }
    \cup { [type |-> "bytes", data |-> b] : b \in EncodedImages \cup BadBuffers }
    \cup { [type |-> "str", text |-> B64Encode(b)] : b \in EncodedImages \cup BadBuffers }
    \cup { [type |-> "str", text |-> t] : t \in PlainTexts }
    \cup { [type |-> "int"], [type |-> "NoneType"] }

\* a variant of HasPathPrefix that knows only the absolute paths
HasPathPrefix_SlashOnly(text) == Len(text) > 0 /\ text[1] = "/"

\* image_source.startswith('/') or image_source.startswith('.')
HasPathPrefix(text) == Len(text) > 0 /\ text[1] \in {"/", "."}

\* return or raise with what an opening gave
Finish(opened) ==
    IF opened.ok
    THEN load_pc' = "returned" /\ loaded' = opened.image
    ELSE load_pc' = "raised" /\ loaded' = NoImage

\* isinstance(image_source, Image.Image): return image_source
LoadPil ==
    /\ load_pc = "call"
    /\ image_source.type = "PIL"
    /\ load_pc' = "returned"
    /\ loaded' = image_source.pil
    /\ UNCHANGED <<captchaVars, ocrVars, batchVars, preVars, engineVars, tailVars, image_source, files, img_data, load_log>>

\* isinstance(image_source, np.ndarray)
LoadArray ==
    /\ load_pc = "call"
    /\ image_source.type = "ndarray"
    /\ load_log' = Append(load_log, "fromarray")
    /\ Finish(FromArray(image_source.array))
    /\ UNCHANGED <<captchaVars, ocrVars, batchVars, preVars, engineVars, tailVars, image_source, files, img_data>>

\* isinstance(image_source, bytes)
LoadBytes ==
    /\ load_pc = "call"
    /\ image_source.type = "bytes"
    /\ load_log' = Append(load_log, "open_bytes")
    /\ Finish(OpenBytes(image_source.data))
    /\ UNCHANGED <<captchaVars, ocrVars, batchVars, preVars, engineVars, tailVars, image_source, files, img_data>>

\* a str with a path prefix: return Image.open(image_source)
LoadPath ==
    /\ load_pc = "call"
    /\ image_source.type = "str"
    /\ HasPathPrefix(image_source.text)
    /\ load_log' = Append(load_log, "open_path")
    /\ Finish(OpenPath(image_source.text))
    /\ UNCHANGED <<captchaVars, ocrVars, batchVars, preVars, engineVars, tailVars, image_source, files, img_data>>

\* any other str: img_data = base64.b64decode(image_source), inside the try
DecodeBase64 ==
    /\ load_pc = "call"
    /\ image_source.type = "str"
    /\ ~HasPathPrefix(image_source.text)
    /\ load_log' = Append(load_log, "b64decode")
    /\ LET decoded == B64Decode(image_source.text)
       IN IF decoded.ok
          THEN load_pc' = "decoded" /\ img_data' = decoded.bytes
          ELSE load_pc' = "except" /\ img_data' = img_data
    /\ UNCHANGED <<captchaVars, ocrVars, batchVars, preVars, engineVars, tailVars, image_source, files, loaded>>

\* return Image.open(io.BytesIO(img_data)), inside the try
OpenDecoded ==
    /\ load_pc = "decoded"
    /\ load_log' = Append(load_log, "open_bytes")
    /\ LET opened == OpenBytes(img_data)
       IN IF opened.ok
          THEN load_pc' = "returned" /\ loaded' = opened.image
          ELSE load_pc' = "except" /\ loaded' = loaded
    /\ UNCHANGED <<captchaVars, ocrVars, batchVars, preVars, engineVars, tailVars, image_source, files, img_data>>

\* except: return Image.open(image_source)
OpenLiteralPath ==
    /\ load_pc = "except"
    /\ load_log' = Append(load_log, "open_path")
    /\ Finish(OpenPath(image_source.text))
    /\ UNCHANGED <<captchaVars, ocrVars, batchVars, preVars, engineVars, tailVars, image_source, files, img_data>>

\* else: raise ValueError
Unsupported ==
    /\ load_pc = "call"
    /\ image_source.type \notin {"PIL", "ndarray", "bytes", "str"}
    /\ load_pc' = "raised"
    /\ UNCHANGED <<captchaVars, ocrVars, batchVars, preVars, engineVars, tailVars, image_source, files, img_data, load_log,
                   loaded>>

InitLoad ==
    /\ CaptchaIdle
    /\ OcrIdle
    /\ BatchIdle
    /\ load_pc = "call"
    /\ image_source \in ImageSources
    /\ files \in SUBSET { t \in PlainTexts : Len(t) > 0 }
    /\ img_data = <<>>
    /\ load_log = <<>>
    /\ loaded = NoImage
    /\ PreIdle
    /\ EngineIdle
    /\ TailIdle

NextLoad ==
    \/ LoadPil \/ LoadArray \/ LoadBytes \/ LoadPath
    \/ DecodeBase64 \/ OpenDecoded \/ OpenLiteralPath \/ Unsupported

SpecLoad == InitLoad /\ [][NextLoad]_vars

LoadEnded == load_pc \in {"returned", "raised"}

\* C14: _load_image resolves its input in a fixed order: PIL image as is, array
\* wrapped, bytes opened as a container; a text with prefix '/' or '.' gets the path
\* load as its only attempt, any other text gets base64 decoding, then container
\* decoding, and the literal-path load only after one of them failed; any other type
\* raises without an attempt and without an image
C14_LoadOrder ==
    LoadEnded =>
        /\ image_source.type = "PIL" =>
              load_log = <<>> /\ load_pc = "returned" /\ loaded = image_source.pil
        /\ image_source.type = "ndarray" => load_log = <<"fromarray">>
        /\ image_source.type = "bytes" => load_log = <<"open_bytes">>
        /\ (image_source.type = "str" /\ image_source.text # <<>>
              /\ image_source.text[1] \in {"/", "."}) =>
              load_log = <<"open_path">>
        /\ (image_source.type = "str"
              /\ (image_source.text = <<>> \/ image_source.text[1] \notin {"/", "."})) =>
              \/ load_log = <<"b64decode", "open_bytes">> /\ load_pc = "returned"
              \/ load_log = <<"b64decode", "open_path">> /\ ~B64Decode(image_source.text).ok
              \/ /\ load_log = <<"b64decode", "open_bytes", "open_path">>
                 /\ B64Decode(image_source.text).ok
                 /\ ~OpenBytes(B64Decode(image_source.text).bytes).ok
        /\ image_source.type \in {"int", "NoneType"} =>
              load_log = <<>> /\ load_pc = "raised" /\ loaded = NoImage
        /\ load_pc = "raised" <=> loaded = NoImage

C14_Witness ==
    /\ load_pc = "returned"
    /\ image_source.type = "str"
    /\ image_source.text = <<"a", "b", "c", "d">>
    /\ load_log = <<"b64decode", "open_bytes", "open_path">>
    /\ loaded # NoImage

\* C15: for every valid encoded image, its base64 text gives the same image as its
\* byte buffer, whatever character the text starts with
C15_Base64SameAsBytes ==
    \A b \in EncodedImages :
        (LoadEnded /\ image_source = [type |-> "str", text |-> B64Encode(b)]) =>
            /\ load_pc = "returned"
            /\ loaded = OpenBytes(b).image

-----------------------------------------------------------------------------
(* OCRProcessor._preprocess_image: a call on a loaded image, the hand-over of *)
(* its result to the engine, and a second call on its own result.  An image  *)
(* is its width, its height and its mode.                                    *)

UpscaleBelow == 300

scale == 2

Images ==
    [ width : {80, 300}, height : {100, 149, 150, 299, 300, 301, 600},
      mode : {"RGB", "L"} ]

\* the steps of the try block that can raise on the image
RaisesOn(image) ==
    {None, "array", "threshold", "fastNlMeansDenoising", "fromarray"}
    \cup (IF image.mode = "RGB" THEN {"cvtColor"} ELSE {})
    \cup (IF image.height < UpscaleBelow THEN {"resize"} ELSE {})

\* a variant of NeedsUpscale that holds of every height
NeedsUpscale_Always(height) == TRUE

\* a variant of NeedsUpscale that includes the boundary
NeedsUpscale_Inclusive(height) == height <= UpscaleBelow

\* img_denoised.shape[0] < 300
NeedsUpscale(height) == height < UpscaleBelow

\* a variant of Preprocess that returns no image when a step raises
Preprocess_Escalates(image, raises) ==
    IF raises # None THEN NoImage
    ELSE [ width |-> IF NeedsUpscale(image.height) THEN scale * image.width ELSE image.width,
           height |-> IF NeedsUpscale(image.height) THEN scale * image.height ELSE image.height,
           mode |-> "L" ]

\* _preprocess_image(img) when the given step raises (None: no step does): the
\* except clause returns img, the try block a grayscale image, resized by fx = fy =
\* scale when the height is below the threshold
Preprocess(image, raises) ==
    IF raises # None THEN image
    ELSE [ width |-> IF NeedsUpscale(image.height) THEN scale * image.width ELSE image.width,
           height |-> IF NeedsUpscale(image.height) THEN scale * image.height ELSE image.height,
           mode |-> "L" ]

\* img = self._preprocess_image(img)
PreprocessImage ==
    /\ pre_pc = "call"
    /\ pre_out' = Preprocess(img, pre_raises)
    /\ pre_pc' = "returned"
    /\ UNCHANGED <<captchaVars, ocrVars, batchVars, loadVars, engineVars, tailVars, img, pre_raises,
                   again_raises, pre_again, engine_img>>

\* pytesseract.image_to_string(img, ...): the engine gets what the call returned
EngineReceives ==
    /\ pre_pc = "returned"
    /\ engine_img' = pre_out
    /\ pre_pc' = "engine"
    /\ UNCHANGED <<captchaVars, ocrVars, batchVars, loadVars, engineVars, tailVars, img, pre_raises, pre_out,
                   again_raises, pre_again>>

\* _preprocess_image applied to the image a successful call returned
PreprocessAgain ==
    /\ pre_pc = "returned"
    /\ pre_raises = None
    /\ again_raises' \in RaisesOn(pre_out)
    /\ pre_again' = Preprocess(pre_out, again_raises')
    /\ pre_pc' = "returned_again"
    /\ UNCHANGED <<captchaVars, ocrVars, batchVars, loadVars, engineVars, tailVars, img, pre_raises, pre_out,
                   engine_img>>

InitPre ==
    /\ CaptchaIdle
    /\ OcrIdle
    /\ BatchIdle
    /\ LoadIdle
    /\ pre_pc = "call"
    /\ img \in Images
    /\ pre_raises \in RaisesOn(img)
    /\ pre_out = NoImage
    /\ again_raises = None
    /\ pre_again = NoImage
    /\ engine_img = NoImage
    /\ EngineIdle
    /\ TailIdle

NextPre == PreprocessImage \/ EngineReceives \/ PreprocessAgain

SpecPre == InitPre /\ [][NextPre]_vars

\* C16: _preprocess_image never raises: when a step fails it returns the image it was
\* given, unmodified, and the extraction goes on with that image
C16_FailureReturnsTheGivenImage ==
    /\ pre_pc # "call" => pre_out # NoImage
    /\ (pre_pc # "call" /\ pre_raises # None) => pre_out = img
    /\ (pre_pc = "engine" /\ pre_raises # None) => engine_img = img

C16_Witness ==
    /\ pre_pc = "engine"
    /\ pre_raises = "threshold"
    /\ img.mode = "RGB"
    /\ engine_img = img

\* C17: on success the result is exactly twice as wide and as high as the input when
\* the input height is below 300, and exactly as wide and as high when it is 300 or more
C17_UpscaleBelow300 ==
    (pre_pc # "call" /\ pre_raises = None) =>
        /\ img.height < 300 =>
              pre_out.width = 2 * img.width /\ pre_out.height = 2 * img.height
        /\ img.height >= 300 =>
              pre_out.width = img.width /\ pre_out.height = img.height

C17_Witness ==
    /\ pre_pc = "returned"
    /\ pre_raises = None
    /\ img.height = 300
    /\ pre_out.height = 300
    /\ pre_out.width = img.width

\* a second call returned, made on the result of a call that upscaled
SecondPass == pre_pc = "returned_again" /\ img.height < 300

SameDimensions(a, b) == a.width = b.width /\ a.height = b.height

-----------------------------------------------------------------------------
(* cl_tender_bot/extraction_engine.py: one call of PageContentParser's       *)
(* extract_text_safely or of a ResultWriter method.  A parsed element is the *)
(* sequence of its descendants in document order, each with its class and    *)
(* its text nodes; a CSV file is its header and its rows of text cells.      *)

MaxChildren == 2

MaxOpps == 2

Descendants ==
    { [class |-> "a", strings |-> << <<" ", "x", " ">> >>],
      [class |-> "a", strings |-> <<>>],
      [class |-> "a", strings |-> << <<"p", " ">>, <<" ">>, <<"\n", "q">> >>],
      [class |-> "b", strings |-> << <<"y">> >>],
      [class |-> "b", strings |-> << <<" ">> >>] }

\* ".a" and ".b" select by class, "a[" is no valid selector
Selectors == {".a", ".b", ".c", "a["}

ClassOf(selector) == CHOOSE c \in {"a", "b", "c"} : selector = "." \o c

\* get_text(strip=True): every text node stripped, the empty ones dropped, the rest
\* joined without a separator
RECURSIVE GetText(_)
GetText(strings) ==
    IF strings = <<>> THEN <<>> ELSE Strip(Head(strings)) \o GetText(Tail(strings))

\* a variant of SelectOne that takes the last match
SelectOne_Last(children, class) ==
    IF \E i \in DOMAIN children : children[i].class = class
    THEN CHOOSE i \in DOMAIN children :
            /\ children[i].class = class
            /\ \A j \in DOMAIN children : children[j].class = class => j <= i
    ELSE 0

\* select_one: the index of the first descendant that matches, 0 for None
SelectOne(children, class) ==
    IF \E i \in DOMAIN children : children[i].class = class
    THEN CHOOSE i \in DOMAIN children :
            /\ children[i].class = class
            /\ \A j \in DOMAIN children : children[j].class = class => i <= j
    ELSE 0

\* extract_text_safely(element, selector, default_value): element None (a lookup on
\* nothing) and an invalid selector raise inside the try
ExtractText(call) ==
    IF call.element = [none |-> TRUE] \/ call.selector = "a["
    THEN call.default_value
    ELSE LET found == SelectOne(call.element.children, ClassOf(call.selector))
         IN IF found # 0 THEN GetText(call.element.children[found].strings)
            ELSE call.default_value

ParserCalls ==
    { [method |-> "extract_text_safely", element |-> el, selector |-> sel,
       default_value |-> d] :
          el \in { [children |-> c] : c \in SeqsUpTo(Descendants, MaxChildren) }
                    \cup { [none |-> TRUE] },
          sel \in Selectors, d \in { <<>>, <<"N", "/", "A">> } }

Attachment == [filename |-> "bases.pdf", url |-> "/Attachment/1", type |-> "technical_document"]

Opportunities ==
    { [identification_code |-> "1057-23-LE24", procurement_title |-> "Obra, etapa 2",
       requesting_entity |-> "Municipalidad", submission_count |-> 4,
       technical_attachments |-> <<Attachment>>, extraction_timestamp |-> "2024-01-01T00:00:00",
       page_url |-> "https://www.mercadopublico.cl/1"],
      [identification_code |-> "2-B", procurement_title |-> "",
       requesting_entity |-> "", submission_count |-> 0,
       technical_attachments |-> <<>>, extraction_timestamp |-> "2024-01-02T00:00:00",
       page_url |-> ""],
      [identification_code |-> "3-C", procurement_title |-> "Servicio",
       requesting_entity |-> "Hospital", submission_count |-> 12,
       technical_attachments |-> <<Attachment, Attachment, Attachment>>,
       extraction_timestamp |-> "2024-01-03T00:00:00",
       page_url |-> "https://www.mercadopublico.cl/3"] }

\* where a writer call fails: nowhere, at open(output_path, 'w'), or while writing
WriterCalls ==
    { [method |-> m, opportunities |-> opps, fails |-> f] :
          m \in {"write_to_json", "write_to_csv"},
          opps \in SeqsUpTo(Opportunities, MaxOpps),
          f \in {None, "open", "write"} }

\* str(n) of an int
RECURSIVE PyStr(_)
PyStr(n) ==
    IF n < 0 THEN "-" \o PyStr(-n)
    ELSE IF n < 10 THEN <<"0", "1", "2", "3", "4", "5", "6", "7", "8", "9">>[n + 1]
    ELSE PyStr(n \div 10) \o PyStr(n % 10)

\* the dictionary write_to_json appends for an opportunity
JsonRecord(opp) ==
    [id |-> opp.identification_code, title |-> opp.procurement_title,
     entity |-> opp.requesting_entity, offers |-> opp.submission_count,
     documents |-> opp.technical_attachments, timestamp |-> opp.extraction_timestamp,
     url |-> opp.page_url]

fieldnames == <<"id", "title", "entity", "offers", "document_count", "timestamp", "url">>

\* a variant of CsvRow that writes the offers as the count of documents too
CsvRow_OffersFromDocuments(opp) ==
    << opp.identification_code, opp.procurement_title, opp.requesting_entity,
       PyStr(Len(opp.technical_attachments)), PyStr(Len(opp.technical_attachments)),
       opp.extraction_timestamp, opp.page_url >>

\* the cells DictWriter.writerow writes for an opportunity, in the order of fieldnames;
\* a number is written as its str()
CsvRow(opp) ==
    << opp.identification_code, opp.procurement_title, opp.requesting_entity,
       PyStr(opp.submission_count), PyStr(Len(opp.technical_attachments)),
       opp.extraction_timestamp, opp.page_url >>

ExtractTextSafely ==
    /\ ee_return = Pending
    /\ ee_call.method = "extract_text_safely"
    /\ ee_return' = [value |-> ExtractText(ee_call)]
    /\ UNCHANGED <<captchaVars, ocrVars, batchVars, loadVars, preVars, tailVars, ee_call, ee_file>>

\* write_to_json: the list is built, then the file is opened and json.dump writes it;
\* a failure of open leaves no file, a failure of json.dump a truncated one; the
\* except clause logs and the method returns None
WriteToJson ==
    /\ ee_return = Pending
    /\ ee_call.method = "write_to_json"
    /\ ee_file' =
          IF ee_call.fails = "open" THEN NoFile
          ELSE IF ee_call.fails = "write" THEN [exists |-> TRUE, complete |-> FALSE]
          ELSE [exists |-> TRUE, complete |-> TRUE,
                data |-> [i \in DOMAIN ee_call.opportunities |->
                             JsonRecord(ee_call.opportunities[i])]]
    /\ ee_return' = [value |-> None]
    /\ UNCHANGED <<captchaVars, ocrVars, batchVars, loadVars, preVars, tailVars, ee_call>>

\* write_to_csv: the file is opened, the header written, then one row per opportunity;
\* a failure of open leaves no file, a failure while writing a truncated one
WriteToCsv ==
    /\ ee_return = Pending
    /\ ee_call.method = "write_to_csv"
    /\ ee_file' =
          IF ee_call.fails = "open" THEN NoFile
          ELSE IF ee_call.fails = "write" THEN [exists |-> TRUE, complete |-> FALSE]
          ELSE [exists |-> TRUE, complete |-> TRUE, header |-> fieldnames,
                rows |-> [i \in DOMAIN ee_call.opportunities |->
                             CsvRow(ee_call.opportunities[i])]]
    /\ ee_return' = [value |-> None]
    /\ UNCHANGED <<captchaVars, ocrVars, batchVars, loadVars, preVars, tailVars, ee_call>>

InitEngine ==
    /\ CaptchaIdle
    /\ OcrIdle
    /\ BatchIdle
    /\ LoadIdle
    /\ PreIdle
    /\ ee_call \in ParserCalls \cup WriterCalls
    /\ ee_return = Pending
    /\ ee_file = NoFile
    /\ TailIdle

NextEngine == ExtractTextSafely \/ WriteToJson \/ WriteToCsv

SpecEngine == InitEngine /\ [][NextEngine]_vars

EngineReturned(m) == ee_call.method = m /\ ee_return # Pending

\* the indices of the descendants with the class a selector names
Matching(children, selector) ==
    { i \in DOMAIN children : selector = "." \o children[i].class }

\* C19: extract_text_safely never raises: it returns the stripped text of the first
\* element that matches the selector when there is one, and the default value when
\* nothing matches or the lookup fails (no element, invalid selector)
C19_FirstMatchOrDefault ==
    EngineReturned("extract_text_safely") =>
        LET lookup_fails == ee_call.element = [none |-> TRUE] \/ ee_call.selector = "a["
        IN IF lookup_fails \/ Matching(ee_call.element.children, ee_call.selector) = {}
           THEN ee_return.value = ee_call.default_value
           ELSE LET first == CHOOSE i \in Matching(ee_call.element.children, ee_call.selector) :
                                \A j \in Matching(ee_call.element.children, ee_call.selector) : i <= j
                    strings == ee_call.element.children[first].strings
                IN /\ ee_return.value = GetText(strings)
                   /\ Len(strings) = 1 => ee_return.value = Strip(strings[1])

C19_Witness ==
    /\ EngineReturned("extract_text_safely")
    /\ ee_call.selector = ".a"
    /\ ee_call.element # [none |-> TRUE]
    /\ Len(ee_call.element.children) = 2
    /\ ee_call.element.children[1].class = "a"
    /\ ee_call.element.children[2].class = "a"
    /\ ee_call.element.children[1].strings = << <<" ", "x", " ">> >>
    /\ ee_call.element.children[2].strings = <<>>
    /\ ee_return.value = <<"x">>

\* the cell of a CSV row under the given column name, as csv.DictReader gives it
Cell(file, i, name) == file.rows[i][CHOOSE k \in DOMAIN file.header : file.header[k] = name]

\* C20: both writers return without raising, whether they fail or not; when nothing
\* fails the file holds exactly one record per opportunity, in input order, with id,
\* title and offers those of the opportunity (in the CSV the offers as decimal text,
\* and document_count the number of attachments as decimal text)
C20_OneRecordPerOpportunity ==
    /\ EngineReturned("write_to_json") =>
          /\ ee_return.value = None
          /\ ee_call.fails = None =>
                /\ ee_file.exists /\ ee_file.complete
                /\ Len(ee_file.data) = Len(ee_call.opportunities)
                /\ \A i \in DOMAIN ee_call.opportunities :
                      /\ ee_file.data[i].id = ee_call.opportunities[i].identification_code
                      /\ ee_file.data[i].title = ee_call.opportunities[i].procurement_title
                      /\ ee_file.data[i].offers = ee_call.opportunities[i].submission_count
    /\ EngineReturned("write_to_csv") =>
          /\ ee_return.value = None
          /\ ee_call.fails = None =>
                /\ ee_file.exists /\ ee_file.complete
                /\ Len(ee_file.rows) = Len(ee_call.opportunities)
                /\ \A i \in DOMAIN ee_call.opportunities :
                      /\ Cell(ee_file, i, "id") = ee_call.opportunities[i].identification_code
                      /\ Cell(ee_file, i, "title") = ee_call.opportunities[i].procurement_title
                      /\ Cell(ee_file, i, "offers") =
                            PyStr(ee_call.opportunities[i].submission_count)
                      /\ Cell(ee_file, i, "document_count") =
                            PyStr(Len(ee_call.opportunities[i].technical_attachments))

C20_Witness ==
    /\ EngineReturned("write_to_csv")
    /\ ee_call.fails = None
    /\ Len(ee_call.opportunities) = 2
    /\ ee_call.opportunities[1].submission_count = 12
    /\ ee_call.opportunities[2].submission_count = 4
    /\ Cell(ee_file, 1, "offers") = "12"
    /\ Cell(ee_file, 1, "document_count") = "3"
    /\ Cell(ee_file, 2, "offers") = "4"

-----------------------------------------------------------------------------
(* cl_tender_bot/extraction_engine.py: a WebpageNavigator and a client that  *)
(* calls navigate_to_page and cleanup in any order.  Sessions are numbered in *)
(* the order they are started.                                               *)

\* a variant of NeedsBrowser that starts a browser on every call
NeedsBrowser_Always(instance) == TRUE

\* not self.browser_instance
NeedsBrowser(instance) == instance = 0

\* navigate_to_page: initialize_browser when no browser is held (it may raise, leaving
\* None), then get(target_url) and the wait for the body on the session held: loaded,
\* TimeoutException (False), or another exception, which is not caught; get on a
\* session that was quit raises
NavigateToPage ==
    /\ nav_calls < MaxCalls
    /\ nav_calls' = nav_calls + 1
    /\ \/ /\ NeedsBrowser(browser_instance)
          /\ nav_return' = "raised"
          /\ UNCHANGED <<browser_instance, started, stale_loads>>
       \/ LET session == IF NeedsBrowser(browser_instance) THEN started + 1
                         ELSE browser_instance
          IN /\ browser_instance' = session
             /\ started' = IF NeedsBrowser(browser_instance) THEN started + 1 ELSE started
             /\ IF quits[session] > 0
                THEN /\ stale_loads' = stale_loads + 1
                     /\ nav_return' = "raised"
                ELSE /\ stale_loads' = stale_loads
                     /\ nav_return' \in {PyTrue, PyFalse, "raised"}
    /\ UNCHANGED <<captchaVars, ocrVars, batchVars, loadVars, preVars, engineVars, searchVars,
                   headless,
                   quits>>

\* cleanup: quit() on the browser held, if any; browser_instance is left as it is
Cleanup ==
    /\ nav_calls < MaxCalls
    /\ nav_calls' = nav_calls + 1
    /\ quits' = IF browser_instance # 0
                THEN [quits EXCEPT ![browser_instance] = @ + 1]
                ELSE quits
    /\ nav_return' = None
    /\ UNCHANGED <<captchaVars, ocrVars, batchVars, loadVars, preVars, engineVars, searchVars,
                   headless,
                   browser_instance, started, stale_loads>>

InitNav ==
    /\ CaptchaIdle
    /\ OcrIdle
    /\ BatchIdle
    /\ LoadIdle
    /\ PreIdle
    /\ EngineIdle
    /\ headless \in BOOLEAN
    /\ browser_instance = 0
    /\ started = 0
    /\ quits = [s \in 1..MaxCalls |-> 0]
    /\ stale_loads = 0
    /\ nav_calls = 0
    /\ nav_return = None
    /\ SearchIdle

NextNav == NavigateToPage \/ Cleanup

SpecNav == InitNav /\ [][NextNav]_vars

\* C21: a navigator holds no browser after construction; a browser is started only by
\* navigate_to_page and only when none is held, so at most one session is started
\* over any sequence of calls
C21_AtMostOneSession ==
    /\ [] /\ nav_calls = 0 => browser_instance = 0 /\ started = 0
          /\ started <= 1
          /\ browser_instance = started
    /\ [][ /\ started' # started => browser_instance = 0 /\ nav_return' # None
           /\ headless' = headless ]_vars

C21_Witness ==
    /\ nav_calls = 3
    /\ started = 1
    /\ browser_instance = 1
    /\ quits[1] = 0
    /\ nav_return = PyTrue

\* C30: no page load is issued on a session that cleanup has quit, and no session is
\* quit more than once
C30_NoUseAfterQuit ==
    /\ stale_loads = 0
    /\ \A s \in 1..MaxCalls : quits[s] <= 1

-----------------------------------------------------------------------------
(* scraper/intelligent_search.py: one call of _calculate_relevance_score or  *)
(* of search_by_experience.  A text is the sequence of its words, and        *)
(* "keyword in text" is the keyword being one of the words; Optional[int] is *)
(* <<>> for None and <<n>> for the integer n.                                *)

MaxQueries == 2

\* a variant of Min that returns its first argument
Min_First(a, b) == a

\* min(a, b)
Min(a, b) == IF a <= b THEN a ELSE b

\* sum(1 for kw in keywords if kw.lower() in text), text being lower-cased already
Matches(keywords, text) ==
    LET lower(w) == IF w = "Python" THEN "python" ELSE IF w = "API" THEN "api"
                    ELSE IF w = "AWS" THEN "aws" ELSE IF w = "Salud" THEN "salud"
                    ELSE IF w = "Datos" THEN "datos" ELSE w
    IN  Cardinality({ i \in DOMAIN keywords :
                        \E j \in DOMAIN text : lower(keywords[i]) = lower(text[j]) })

\* _calculate_relevance_score(tender): the seven components and the score returned
Relevance(tender, profile) ==
    LET full_text == tender.Nombre \o tender.Descripcion
        regions == profile.regions
        monto == tender.MontoEstimado
        \* int(tender.get('MontoEstimado', 0)) raises on text that is no integer
        \* (ValueError) and on None (TypeError)
        int_raises == monto.kind \in {"text", "null"}
        amount == IF monto.kind = "missing" THEN 0 ELSE monto.value
        \* "if self.profile.min_amount and self.profile.max_amount": None and 0 are false
        configured == /\ profile.min_amount # <<>> /\ profile.min_amount[1] # 0
                      /\ profile.max_amount # <<>> /\ profile.max_amount[1] # 0
        parts ==
          [primary |-> Min(Matches(profile.primary_keywords, full_text) * 10, 30),
           secondary |-> Min(Matches(profile.secondary_keywords, full_text) * 5, 15),
           technologies |-> Min(Matches(profile.technologies, full_text) * 7, 20),
           skills |-> Min(Matches(profile.technical_skills, full_text) * 5, 15),
           sectors |-> Min(Matches(profile.sectors, tender.Organismo \o full_text) * 5, 10),
           region |-> IF \/ \E i \in DOMAIN regions : regions[i] = tender.Region
                         \/ \E i \in DOMAIN regions : regions[i] \in {"todas", "Todas"}
                      THEN 5 ELSE 0,
           amount |-> IF /\ ~int_raises
                         /\ configured
                         /\ profile.min_amount[1] <= amount
                         /\ amount <= profile.max_amount[1]
                      THEN 5 ELSE 0]
    IN  [parts |-> parts,
         score |-> Min(parts.primary + parts.secondary + parts.technologies + parts.skills
                       + parts.sectors + parts.region + parts.amount, 100)]

Profiles ==
    [ primary_keywords : { <<"Python">>, <<"Python", "api", "datos", "python">> },
      secondary_keywords : { <<>>, <<"API", "datos", "aws", "salud">> },
      technologies : { <<"java">>, <<"AWS", "Python", "api">> },
      technical_skills : { <<>>, <<"datos", "Datos", "api", "python">> },
      sectors : { <<>>, <<"Salud", "datos", "aws">> },
      regions : { <<>>, <<"RM">>, <<"Todas">> },
      min_amount : { <<>>, <<0>>, <<100>> },
      max_amount : { <<>>, <<1000>> } ]

\* the tenders the API lists; a key that is missing reads as '' (Organismo: {})
Tenders ==
    { [Codigo |-> "A", Nombre |-> <<"Desarrollo", "Python", "API">>,
       Descripcion |-> <<"datos", "AWS">>, Organismo |-> <<"Servicio", "Salud">>,
       Region |-> "RM", MontoEstimado |-> [kind |-> "int", value |-> 500]],
      [Codigo |-> "B", Nombre |-> <<"Sistema", "python">>, Descripcion |-> <<>>,
       Organismo |-> <<>>, Region |-> "", MontoEstimado |-> [kind |-> "missing"]],
      [Codigo |-> "C", Nombre |-> <<"Aseo">>, Descripcion |-> <<>>,
       Organismo |-> <<"Municipalidad">>, Region |-> "V",
       MontoEstimado |-> [kind |-> "text"]],
      [Codigo |-> "", Nombre |-> <<"Python", "API", "datos", "AWS", "salud">>,
       Descripcion |-> <<>>, Organismo |-> <<>>, Region |-> "RM",
       MontoEstimado |-> [kind |-> "int", value |-> 1000]],
      [Codigo |-> "A", Nombre |-> <<"Python">>, Descripcion |-> <<>>,
       Organismo |-> <<>>, Region |-> "RM", MontoEstimado |-> [kind |-> "null"]] }

\* a _calculate_relevance_score call on any tender with any profile, or a
\* search_by_experience call whose queries are answered with lists of tenders or raise
SearchCalls ==
    { [method |-> "_calculate_relevance_score", profile |-> p, tender |-> t] :
          p \in Profiles, t \in Tenders }
    \cup
    { [method |-> "search_by_experience", profile |-> p, responses |-> r,
       max_results |-> m, min_relevance_score |-> s] :
          p \in { q \in Profiles : /\ q.regions = <<"RM">> /\ q.min_amount = <<100>>
                                    /\ q.max_amount = <<1000>> /\ q.sectors = <<>>
                                    /\ q.technical_skills = <<>>
                                    /\ q.secondary_keywords = <<>>
                                    /\ q.technologies = <<"java">> },
          r \in SeqsUpTo({ [raised |-> TRUE] }
                           \cup { [raised |-> FALSE, tenders |-> l] :
                                     l \in SeqsUpTo(Tenders, 1) }
                           \cup { [raised |-> FALSE, tenders |-> l] :
                                     l \in { l2 \in [1..2 -> Tenders] :
                                               l2[1].Codigo = "A" /\ l2[2].Codigo # "C" } },
                         MaxQueries),
          m \in {1, 100}, s \in {0, 30} }

\* a variant of Unseen that does not look at the codes seen
Unseen_NonEmpty(code, seen) == code # ""

\* if code and code not in seen_codes
Unseen(code, seen) == code # "" /\ code \notin seen

\* the loop over the queries: the tenders of every query that did not raise, in
\* order, each code once
RECURSIVE UniqueTenders(_, _)
UniqueTenders(tenders, seen) ==
    IF tenders = <<>> THEN <<>>
    ELSE IF Unseen(Head(tenders).Codigo, seen)
    THEN <<Head(tenders)>> \o UniqueTenders(Tail(tenders), seen \cup {Head(tenders).Codigo})
    ELSE UniqueTenders(Tail(tenders), seen)

\* list.sort(key=relevance_score, reverse=True): stable, the highest score first
RECURSIVE SortByRelevance(_)
SortByRelevance(scored) ==
    IF scored = <<>> THEN <<>>
    ELSE LET n == Len(scored)
             e == scored[n]
             front == SortByRelevance(SubSeq(scored, 1, n - 1))
             p == Cardinality({k \in 1..Len(front) :
                                 front[k].relevance_score >= e.relevance_score})
         IN  SubSeq(front, 1, p) \o <<e>> \o SubSeq(front, p + 1, Len(front))

\* search_by_experience: collect, score and filter, sort, cut at max_results
SearchResult(call) ==
    LET RECURSIVE flat(_)
        flat(responses) ==
            IF responses = <<>> THEN <<>>
            ELSE (IF Head(responses).raised THEN <<>> ELSE Head(responses).tenders)
                 \o flat(Tail(responses))
        all_tenders == UniqueTenders(flat(call.responses), {})
        scored == [i \in DOMAIN all_tenders |->
                     [Codigo |-> all_tenders[i].Codigo, Nombre |-> all_tenders[i].Nombre,
                      relevance_score |-> Relevance(all_tenders[i], call.profile).score]]
        relevant(t) == t.relevance_score >= call.min_relevance_score
        sorted == SortByRelevance(SelectSeq(scored, relevant))
    IN  SubSeq(sorted, 1, Min(call.max_results, Len(sorted)))

CalculateRelevanceScore ==
    /\ search_result = Pending
    /\ search_call.method = "_calculate_relevance_score"
    /\ search_result' = Relevance(search_call.tender, search_call.profile)
    /\ UNCHANGED <<captchaVars, ocrVars, batchVars, loadVars, preVars, engineVars, navVars,
                   search_call>>

SearchByExperience ==
    /\ search_result = Pending
    /\ search_call.method = "search_by_experience"
    /\ search_result' = [value |-> SearchResult(search_call)]
    /\ UNCHANGED <<captchaVars, ocrVars, batchVars, loadVars, preVars, engineVars, navVars,
                   search_call>>

InitSearch ==
    /\ CaptchaIdle
    /\ OcrIdle
    /\ BatchIdle
    /\ LoadIdle
    /\ PreIdle
    /\ EngineIdle
    /\ NavIdle
    /\ search_call \in SearchCalls
    /\ search_result = Pending

NextSearch == CalculateRelevanceScore \/ SearchByExperience

SpecSearch == InitSearch /\ [][NextSearch]_vars

SearchReturned(m) == search_call.method = m /\ search_result # Pending

C29_AmountPointsIffInRange ==
    SearchReturned("_calculate_relevance_score") =>
        LET monto == search_call.tender.MontoEstimado
            profile == search_call.profile
            in_range == IF profile.min_amount # <<>> /\ profile.max_amount # <<>>
                           /\ monto.kind = "int"
                        THEN /\ profile.min_amount[1] <= monto.value
                             /\ monto.value <= profile.max_amount[1]
                        ELSE FALSE
        IN /\ search_result.parts.amount = 5 <=> in_range
           /\ monto.kind \in {"missing", "text", "null"} => search_result.parts.amount = 0

\* C23: search_by_experience returns at most max_results tenders, the highest
\* relevance_score first, each with a score of at least min_relevance_score and with
\* pairwise distinct non-empty codes; a query that raises does not keep the tenders of
\* the other queries out
C23_SearchResultsOrderedAndDistinct ==
    SearchReturned("search_by_experience") =>
        LET found == search_result.value
            responses == search_call.responses
            answered == { k \in DOMAIN responses : ~responses[k].raised }
            listed == UNION { { responses[k].tenders[i] : i \in DOMAIN responses[k].tenders } :
                              k \in answered }
        IN /\ Len(found) <= search_call.max_results
           /\ \A i, j \in DOMAIN found :
                 /\ i < j => found[i].relevance_score >= found[j].relevance_score
                 /\ i # j => found[i].Codigo # found[j].Codigo
           /\ \A i \in DOMAIN found :
                 /\ found[i].relevance_score >= search_call.min_relevance_score
                 /\ found[i].Codigo # ""
                 /\ \E t \in listed : t.Codigo = found[i].Codigo
           /\ \A t \in listed :
                 ( /\ t.Codigo # ""
                   /\ Len(found) < search_call.max_results
                   /\ \A u \in listed :
                         u.Codigo = t.Codigo =>
                            Relevance(u, search_call.profile).score
                               >= search_call.min_relevance_score )
                 => \E i \in DOMAIN found : found[i].Codigo = t.Codigo

C23_Witness ==
    /\ SearchReturned("search_by_experience")
    /\ Len(search_call.responses) = 2
    /\ search_call.responses[1].raised
    /\ ~search_call.responses[2].raised
    /\ Len(search_call.responses[2].tenders) = 2
    /\ search_call.responses[2].tenders[2].Codigo = "A"
    /\ search_call.max_results = 100
    /\ Len(search_result.value) = 1
    /\ search_result.value[1].Codigo = "A"

====
